---- MODULE Spec2Model ----
(***************************************************************************)
(* Model of wb_orders_sync.py: one run of main(), i.e. an optional         *)
(* one-day reload (delete, flag=1 fetch, upsert) followed by the           *)
(* incremental loop (read high-water mark, then fetch / transform /        *)
(* upsert / advance cursor / sleep until an empty page).                   *)
(*                                                                         *)
(* The two external services are the environment.  The upstream answers    *)
(* every request with any status and, on 200, any page.  The sink is a     *)
(* table (a sequence of rows, in insertion order) that answers every call  *)
(* with success or an HTTP error.                                          *)
(*                                                                         *)
(* Time.  Wall-clock strings are records [k, s, f]: kind, whole seconds    *)
(* of Moscow wall-clock time counted from 2023-01-01T00:00:00, and the     *)
(* sub-second fraction in steps of 1/SubSec second.  Absolute instants     *)
(* (aware datetimes, the sink's timestamptz columns) are integers: ticks   *)
(* of 1/SubSec second of UTC counted from 2023-01-01T00:00:00Z.  Moscow    *)
(* has been UTC+3 without DST since 2014, which covers this domain.        *)
(***************************************************************************)
EXTENDS Integers, Sequences, FiniteSets

VARIABLES
    pc,           \* position in main(): see the actions
    phase,        \* "reload" inside full_reload_day_msk, "inc" inside incremental_sync
    reloadDay,    \* RELOAD_DAY: 0 for None, else the day number
    sink,         \* the wb_orders table: sequence of rows
    cursor,       \* incremental_sync: cursor
    prev_cursor,  \* incremental_sync: prev_cursor
    pages,        \* incremental_sync: pages
    params,       \* wb_request: params (dateFrom, flag)
    attempt,      \* wb_request: attempt
    wb_data,      \* the page wb_request returned
    rows,         \* transform_wb_orders' result, the argument of upsert_orders_to_db
    i,            \* upsert_orders_to_db: i, the offset of the next chunk
    err,          \* the unhandled exception that ended the run, or "none"
    lastResp,     \* history: kind of the upstream's latest response
    slept,        \* history: seconds slept since the upstream's latest response
    lastReq,      \* history: the parameters sent with the latest request
    nreq,         \* history: requests the wb_request call in progress has sent and seen fail
    deleted,      \* history: the range delete has succeeded
    dumpFetched,  \* history: a flag=1 request has been sent
    upserted,     \* history: an upsert POST has been sent
    sinkBefore,   \* history: the sink when the current upsert_orders_to_db call began
    sink0,        \* history: the sink when full_reload_day_msk began; after the reload
                  \* (if recorded), the rows its delete removed when the flag=1 fetch
                  \* got no 200 answer
    sameCursorSent, \* history: the loop's latest fetch carried the cursor of the one before
    keepHistory   \* the run records sameCursorSent and what a failed reload deleted

vars == <<pc, phase, reloadDay, sink, cursor, prev_cursor, pages, params, attempt,
          wb_data, rows, i, err, lastResp, slept, lastReq, nreq, deleted,
          dumpFetched, upserted, sinkBefore, sink0, sameCursorSent, keepHistory>>

(***************************************************************************)
(* Bounds of the model.                                                    *)
(***************************************************************************)
\* longest page the upstream returns
MaxPageLen == 3
\* most iterations of the incremental loop that are followed
MaxPages == 2
\* sub-second steps per second that are told apart
SubSec == 2
\* quarter-hour steps of the wall-clock times given to the round trip, per range
MaxRtSteps == 12

(***************************************************************************)
(* Program constants.                                                      *)
(***************************************************************************)
\* OVERLAP_MINUTES, default
OVERLAP_MINUTES == 120
\* BATCH_SIZE: an environment setting (default 500), run here with 2
BATCH_SIZE == 2
\* WB_SLEEP_SECONDS, default
WB_SLEEP_SECONDS == 65
\* the floor of the 429 sleep: max(WB_SLEEP_SECONDS, 65)
MIN_429_SLEEP == 65
\* wb_request's max_retries, default
max_retries == 6
\* the 5xx / network backoff: 10 * attempt
BACKOFF_STEP == 10
\* len(wb_data) >= 80000 in the source; scaled so that pages reaching it are enumerable
STALL_PAGE_LEN == 3
\* Europe/Moscow: UTC+3, in seconds
MSK_OFFSET == 10800
\* Europe/Moscow between 2011-03-27 and 2014-10-26: UTC+4, in seconds
MSK_OFFSET_2011 == 14400
\* 2011-03-27T02:00:00 Moscow wall-clock time, in seconds from 2023-01-01T00:00:00:
\* the clocks went from 02:00 (UTC+3) to 03:00 (UTC+4); the hour between is skipped
MSK_GAP_START == -371340000
\* 2014-10-26T02:00:00 Moscow wall-clock time, in seconds from 2023-01-01T00:00:00:
\* the clocks went from 02:00 (UTC+4) back to 01:00 (UTC+3); that hour occurs twice
MSK_FOLD_END == -258242400
\* timedelta(hours=1), in seconds
HOUR_SECONDS == 3600
\* timedelta(days=1), in seconds
DAY_SECONDS == 86400
\* timedelta(minutes=1), in seconds
MINUTE_SECONDS == 60

Max(a, b) == IF a >= b THEN a ELSE b

(***************************************************************************)
(* Strings of the upstream.                                                *)
(***************************************************************************)
\* "YYYY-MM-DDTHH:MM:SS[.f]" without offset
Ts(s, f) == [k |-> "ts", s |-> s, f |-> f]
\* "YYYY-MM-DD", the RELOAD_DAY string
DateStr(d) == [k |-> "date", s |-> d * DAY_SECONDS, f |-> 0]
\* a string isoparse rejects
BadStr == [k |-> "bad", s |-> 0, f |-> 0]
\* None: the key is absent or null
NoneStr == [k |-> "none", s |-> 0, f |-> 0]

\* isoparse accepts the string
Parses(v) == v.k \in {"ts", "date"}
\* Python truthiness of a field value
Truthy(v) == v.k # "none"

(***************************************************************************)
(* Time helpers.                                                           *)
(***************************************************************************)
\* ZoneInfo("Europe/Moscow") since 2010-10-31 (the yearly changes before that are
\* not modelled). utcoffset of a naive wall-clock second w (fold = 0): a skipped time
\* gets the offset in force before the change, a repeated one its first occurrence
MskOffsetOfWall(w) ==
    IF MSK_GAP_START + HOUR_SECONDS <= w /\ w < MSK_FOLD_END
    THEN MSK_OFFSET_2011
    ELSE MSK_OFFSET

\* ZoneInfo("Europe/Moscow"): utcoffset at the UTC second u
MskOffsetAtUtc(u) ==
    IF MSK_GAP_START - MSK_OFFSET <= u /\ u < MSK_FOLD_END - MSK_OFFSET_2011
    THEN MSK_OFFSET_2011
    ELSE MSK_OFFSET

\* parse_wb_dt_to_utc: the naive string is Moscow wall-clock time; result in UTC ticks
parse_wb_dt_to_utc(v) == (v.s - MskOffsetOfWall(v.s)) * SubSec + v.f

\* format_dt_for_wb printing the UTC wall-clock time
format_dt_utc(t) == Ts(t \div SubSec, 0)

\* format_dt_for_wb: Moscow wall-clock time, whole seconds (strftime drops the fraction)
format_dt_for_wb(t) == Ts((t \div SubSec) + MskOffsetAtUtc(t \div SubSec), 0)

\* timedelta(seconds=n) in ticks
Seconds(n) == n * SubSec

(***************************************************************************)
(* Record transformer.                                                     *)
(***************************************************************************)
\* transform_wb_orders raises on this record: o["date"], o["lastChangeDate"], isoparse
Raises(o) == ~Parses(o.date) \/ ~Parses(o.lastChangeDate)

\* one upstream record to one sink row
TransformOne(o) ==
    [srid |-> o.srid,
     date |-> parse_wb_dt_to_utc(o.date),
     last_change_date |-> parse_wb_dt_to_utc(o.lastChangeDate)]

\* transform_wb_orders on a page none of whose records raises
transform_wb_orders(data) == [n \in 1..Len(data) |-> TransformOne(data[n])]

(***************************************************************************)
(* Sink gateway.                                                           *)
(***************************************************************************)
RECURSIVE MaxLcd(_)
\* order=last_change_date.desc, limit=1 on a non-empty table
MaxLcd(tbl) ==
    IF Len(tbl) = 1 THEN tbl[1].last_change_date
    ELSE Max(tbl[1].last_change_date, MaxLcd(Tail(tbl)))

\* get_db_max_last_change_date_utc: 2023-01-01T00:00:00 MSK when the table is empty
get_db_max_last_change_date_utc(tbl) ==
    IF tbl = <<>> THEN (0 - MSK_OFFSET) * SubSec ELSE MaxLcd(tbl)

\* delete_msk_day_from_db: start_utc and end_utc of the day
DayStartUtc(d) == (d * DAY_SECONDS - MSK_OFFSET) * SubSec
DayEndUtc(d) == (d * DAY_SECONDS + DAY_SECONDS - MSK_OFFSET) * SubSec

\* the filter date=gte.start_utc & date=lt.end_utc
InDay(t, d) == DayStartUtc(d) <= t /\ t < DayEndUtc(d)

\* the filter with lte for the end of the day
delete_msk_day_inclusive_end(tbl, d) ==
    SelectSeq(tbl, LAMBDA r : ~(DayStartUtc(d) <= r.date /\ r.date <= DayEndUtc(d)))

\* the rows the range delete removes
DeletedRows(tbl, d) == SelectSeq(tbl, LAMBDA r : InDay(r.date, d))

\* delete_msk_day_from_db: the table without the rows the filter selects
delete_msk_day_from_db(tbl, d) == SelectSeq(tbl, LAMBDA r : ~InDay(r.date, d))

\* the positions of the table holding the srid
Holding(tbl, srid) == {n \in 1..Len(tbl) : tbl[n].srid = srid}

\* a plain insert: the POST without on_conflict / merge-duplicates
UpsertRowPlainInsert(tbl, r) == Append(tbl, r)

\* a conflict found only when the whole row is equal, not by srid
UpsertRowWholeRowKey(tbl, r) ==
    IF \E n \in 1..Len(tbl) : tbl[n] = r THEN tbl ELSE Append(tbl, r)

\* on_conflict=srid, resolution=merge-duplicates, one row: update in place, else insert
UpsertRow(tbl, r) ==
    IF Holding(tbl, r.srid) # {}
    THEN [n \in 1..Len(tbl) |-> IF tbl[n].srid = r.srid THEN r ELSE tbl[n]]
    ELSE Append(tbl, r)

RECURSIVE UpsertRows(_, _)
\* one POST: the rows of the chunk, in order
UpsertRows(tbl, chunk) ==
    IF chunk = <<>> THEN tbl
    ELSE UpsertRows(UpsertRow(tbl, Head(chunk)), Tail(chunk))

\* rows[i:i + BATCH_SIZE], i counted from 0
Chunk(rs, off) == SubSeq(rs, off + 1, IF off + BATCH_SIZE <= Len(rs) THEN off + BATCH_SIZE ELSE Len(rs))

\* a chunk naming one srid twice: PostgreSQL refuses the statement ("ON CONFLICT DO
\* UPDATE command cannot affect row a second time"), the POST answers an error
Accepted(chunk) == \A m, n \in 1..Len(chunk) : chunk[m].srid = chunk[n].srid => m = n

RECURSIVE upsert_orders_to_db(_, _, _)
\* upsert_orders_to_db from offset off with every accepted POST succeeding: the
\* chunks in order, stopping at the first one that raises
upsert_orders_to_db(tbl, rs, off) ==
    IF off >= Len(rs) \/ ~Accepted(Chunk(rs, off)) THEN tbl
    ELSE upsert_orders_to_db(UpsertRows(tbl, Chunk(rs, off)), rs, off + BATCH_SIZE)

(***************************************************************************)
(* The environment's choices.                                              *)
(***************************************************************************)
\* RELOAD_DAY when set: a day number
Days == {1, 2}

\* upstream order records: two srids, dates on both edges of day 1, whole-second and
\* fractional lastChangeDate, and two records with an unusable lastChangeDate
UpRecords ==
    { [srid |-> "a", date |-> Ts(DAY_SECONDS, 0), lastChangeDate |-> Ts(DAY_SECONDS + 100, 0)],
      [srid |-> "b", date |-> Ts(2 * DAY_SECONDS, 0), lastChangeDate |-> Ts(DAY_SECONDS + 100, 0)],
      [srid |-> "a", date |-> Ts(DAY_SECONDS - 1, 1), lastChangeDate |-> Ts(DAY_SECONDS + 200, 0)],
      [srid |-> "b", date |-> Ts(2 * DAY_SECONDS - 1, 1), lastChangeDate |-> Ts(DAY_SECONDS + 100, 1)],
      [srid |-> "a", date |-> Ts(DAY_SECONDS, 0), lastChangeDate |-> BadStr],
      [srid |-> "b", date |-> Ts(DAY_SECONDS, 0), lastChangeDate |-> NoneStr] }

\* the pages a 200 response may carry, the empty one included
PagesOfLen(n) == [1..n -> UpRecords]
UpPages == UNION {PagesOfLen(n) : n \in 0..MaxPageLen}

\* the rows earlier runs may have left in the table
StoredRows == {TransformOne(o) : o \in {u \in UpRecords : ~Raises(u)}}

\* a row an earlier run stored whose last_change_date lies the overlap after the
\* lastChangeDate of upstream records: the loop's first cursor then equals theirs
LateRow ==
    TransformOne([srid |-> "b", date |-> Ts(2 * DAY_SECONDS, 0),
                  lastChangeDate |->
                      Ts(DAY_SECONDS + 100 + OVERLAP_MINUTES * MINUTE_SECONDS, 0)])

\* the tables a run may start with: srid is the table's unique key
InitSinks ==
    {<<>>} \cup {<<r>> : r \in StoredRows}
           \cup {<<r, q>> : <<r, q>> \in {x \in StoredRows \X StoredRows : x[1].srid # x[2].srid}}

(***************************************************************************)
(* main() and its callees.                                                 *)
(***************************************************************************)
Start(sinks, h) ==
    /\ pc = "main"
    /\ phase = "idle"
    /\ reloadDay \in {0} \cup Days
    /\ sink \in sinks
    /\ cursor = NoneStr
    /\ prev_cursor = NoneStr
    /\ pages = 0
    /\ params = [dateFrom |-> NoneStr, flag |-> 0]
    /\ attempt = 0
    /\ wb_data = <<>>
    /\ rows = <<>>
    /\ i = 0
    /\ err = "none"
    /\ lastResp = "none"
    /\ slept = 0
    /\ lastReq = [dateFrom |-> NoneStr, flag |-> 0]
    /\ nreq = 0
    /\ deleted = FALSE
    /\ dumpFetched = FALSE
    /\ upserted = FALSE
    /\ sinkBefore = <<>>
    /\ sink0 = <<>>
    /\ sameCursorSent = FALSE
    /\ keepHistory = h

\* the process is started: nothing has run yet
Init == Start(InitSinks, FALSE)

\* the same start, of a run whose history is recorded, over the tables of InitSinks
\* and the one with LateRow
InitHistory == Start(InitSinks \cup {<<LateRow>>}, TRUE)

\* wb_request(date_from, flag) is entered: params is built, the loop starts at attempt 1
CallWbRequest(date_from, flag) ==
    /\ pc' = "request"
    /\ params' = [dateFrom |-> date_from, flag |-> flag]
    /\ attempt' = 1
    /\ nreq' = 0

\* an unhandled exception ends the process
Raise(e) ==
    /\ pc' = "crashed"
    /\ err' = e

\* main with a reload that fetches the dump without deleting the day first
MainFetchBeforeDelete ==
    /\ pc = "main"
    /\ IF reloadDay # 0
       THEN /\ phase' = "reload"
            /\ sink0' = sink
            /\ CallWbRequest(DateStr(reloadDay), 1)
       ELSE /\ pc' = "inc_read"
            /\ phase' = "inc"
            /\ sink0' = sink0
            /\ UNCHANGED <<params, attempt, nreq>>
    /\ UNCHANGED <<reloadDay, sink, cursor, prev_cursor, pages, wb_data, rows, i, err,
                   lastResp, slept, lastReq, deleted, dumpFetched, upserted, sinkBefore,
                   sameCursorSent, keepHistory>>

\* main: the reload when RELOAD_DAY is set, else straight to incremental_sync
Main ==
    /\ pc = "main"
    /\ IF reloadDay # 0
       THEN /\ pc' = "reload_delete"
            /\ phase' = "reload"
            /\ sink0' = sink
       ELSE /\ pc' = "inc_read"
            /\ phase' = "inc"
            /\ sink0' = sink0
    /\ UNCHANGED <<reloadDay, sink, cursor, prev_cursor, pages, params, attempt, wb_data,
                   rows, i, err, lastResp, slept, lastReq, nreq, deleted,
                   dumpFetched, upserted, sinkBefore, sameCursorSent, keepHistory>>

\* full_reload_day_msk: the delete succeeds, then wb_request(day, flag=1) is called
DeleteOk ==
    /\ pc = "reload_delete"
    /\ sink' = delete_msk_day_from_db(sink, reloadDay)
    /\ deleted' = TRUE
    /\ CallWbRequest(DateStr(reloadDay), 1)
    /\ UNCHANGED <<phase, reloadDay, cursor, prev_cursor, pages, wb_data, rows, i, err,
                   lastResp, slept, lastReq, dumpFetched, upserted, sinkBefore,
                   sink0, sameCursorSent, keepHistory>>

\* delete_msk_day_from_db: raise_for_status raises
DeleteFail ==
    /\ pc = "reload_delete"
    /\ Raise("delete")
    /\ UNCHANGED <<phase, reloadDay, sink, cursor, prev_cursor, pages, params, attempt,
                   wb_data, rows, i, lastResp, slept, lastReq, nreq, deleted,
                   dumpFetched, upserted, sinkBefore, sink0, sameCursorSent, keepHistory>>

(***************************************************************************)
(* wb_request: one action per attempt and kind of answer.                  *)
(***************************************************************************)
\* requests.get is called with params; the answer resp comes, then sleep_s are slept
Sent(resp, sleep_s) ==
    /\ pc = "request"
    /\ lastReq' = params
    /\ dumpFetched' = (dumpFetched \/ params.flag = 1)
    /\ lastResp' = resp
    /\ slept' = sleep_s

\* wb_request's caller taking a short page for the end of the data
ReturnStopOnShortPage(data) ==
    /\ wb_data' = data
    /\ pc' = IF phase = "inc" /\ Len(data) < BATCH_SIZE THEN "done" ELSE "transform"
    /\ attempt' = 0
    /\ nreq' = 0

\* wb_request returns data to its caller (its locals are gone): incremental_sync
\* breaks on an empty page and main ends; otherwise transform_wb_orders comes next
Return(data) ==
    /\ wb_data' = data
    /\ pc' = IF phase = "inc" /\ data = <<>> THEN "done" ELSE "transform"
    /\ attempt' = 0
    /\ nreq' = 0

\* a retry loop without the attempt bound
NextAttemptUnbounded ==
    /\ attempt' = attempt + 1
    /\ nreq' = nreq + 1
    /\ pc' = pc
    /\ wb_data' = wb_data

\* continue (or the end of the except clause): the next attempt, or return [] after the last
NextAttempt ==
    IF attempt < max_retries
    THEN /\ attempt' = attempt + 1
         /\ nreq' = nreq + 1
         /\ pc' = pc
         /\ wb_data' = wb_data
    ELSE Return(<<>>)

\* sleep_s = max(WB_SLEEP_SECONDS, 65)
RateLimitSleep == Max(WB_SLEEP_SECONDS, MIN_429_SLEEP)

\* sleep_s = 10 * attempt
Backoff(n) == BACKOFF_STEP * n

\* status 200 with a list body
Resp200 ==
    /\ \E page \in UpPages :
          /\ Sent("200", 0)
          /\ Return(page)
    /\ UNCHANGED <<phase, reloadDay, sink, cursor, prev_cursor, pages, params, rows, i,
                   err, deleted, upserted, sinkBefore, sink0, sameCursorSent, keepHistory>>

\* status 200 with a body that is no list
Resp200NonList ==
    /\ Sent("200", 0)
    /\ Return(<<>>)
    /\ UNCHANGED <<phase, reloadDay, sink, cursor, prev_cursor, pages, params, rows, i,
                   err, deleted, upserted, sinkBefore, sink0, sameCursorSent, keepHistory>>

\* a 429 handled like a non-retryable status
Resp429NoRetry ==
    /\ Sent("429", RateLimitSleep)
    /\ Return(<<>>)
    /\ UNCHANGED <<phase, reloadDay, sink, cursor, prev_cursor, pages, params, rows, i,
                   err, deleted, upserted, sinkBefore, sink0, sameCursorSent, keepHistory>>

\* status 429
Resp429 ==
    /\ Sent("429", RateLimitSleep)
    /\ NextAttempt
    /\ UNCHANGED <<phase, reloadDay, sink, cursor, prev_cursor, pages, params, rows, i,
                   err, deleted, upserted, sinkBefore, sink0, sameCursorSent, keepHistory>>

\* status 500..599
Resp5xx ==
    /\ Sent("5xx", Backoff(attempt))
    /\ NextAttempt
    /\ UNCHANGED <<phase, reloadDay, sink, cursor, prev_cursor, pages, params, rows, i,
                   err, deleted, upserted, sinkBefore, sink0, sameCursorSent, keepHistory>>

\* any other status handled like a 5xx: backoff and retry
RespOtherRetried ==
    /\ Sent("other", Backoff(attempt))
    /\ NextAttempt
    /\ UNCHANGED <<phase, reloadDay, sink, cursor, prev_cursor, pages, params, rows, i,
                   err, deleted, upserted, sinkBefore, sink0, sameCursorSent, keepHistory>>

\* any other status
RespOther ==
    /\ Sent("other", 0)
    /\ Return(<<>>)
    /\ UNCHANGED <<phase, reloadDay, sink, cursor, prev_cursor, pages, params, rows, i,
                   err, deleted, upserted, sinkBefore, sink0, sameCursorSent, keepHistory>>

\* requests.RequestException
NetworkError ==
    /\ Sent("neterr", Backoff(attempt))
    /\ NextAttempt
    /\ UNCHANGED <<phase, reloadDay, sink, cursor, prev_cursor, pages, params, rows, i,
                   err, deleted, upserted, sinkBefore, sink0, sameCursorSent, keepHistory>>

(***************************************************************************)
(* transform_wb_orders and upsert_orders_to_db, called by both phases.     *)
(***************************************************************************)
\* transform_wb_orders(wb_data), then upsert_orders_to_db is entered
Transform ==
    /\ pc = "transform"
    /\ IF \E n \in 1..Len(wb_data) : Raises(wb_data[n])
       THEN /\ Raise("parse")
            /\ UNCHANGED <<rows, i, sinkBefore>>
       ELSE /\ rows' = transform_wb_orders(wb_data)
            /\ i' = 0
            /\ sinkBefore' = sink
            /\ pc' = "upsert"
            /\ err' = err
    /\ UNCHANGED <<phase, reloadDay, sink, cursor, prev_cursor, pages, params, attempt,
                   wb_data, lastResp, slept, lastReq, nreq, deleted, dumpFetched,
                   upserted, sink0, sameCursorSent, keepHistory>>

\* one POST of rows[i:i + BATCH_SIZE] succeeds
UpsertChunkOk ==
    /\ pc = "upsert"
    /\ i < Len(rows)
    /\ Accepted(Chunk(rows, i))
    /\ sink' = UpsertRows(sink, Chunk(rows, i))
    /\ i' = i + BATCH_SIZE
    /\ upserted' = TRUE
    /\ UNCHANGED <<pc, phase, reloadDay, cursor, prev_cursor, pages, params, attempt,
                   wb_data, rows, err, lastResp, slept, lastReq, nreq, deleted,
                   dumpFetched, sinkBefore, sink0, sameCursorSent, keepHistory>>

\* a failed POST that is logged and skipped: the loop goes on to the next chunk
UpsertChunkFailSkipped ==
    /\ pc = "upsert"
    /\ i < Len(rows)
    /\ upserted' = TRUE
    /\ i' = i + BATCH_SIZE
    /\ err' = "upsert"
    /\ UNCHANGED <<pc, phase, reloadDay, sink, cursor, prev_cursor, pages, params, attempt,
                   wb_data, rows, lastResp, slept, lastReq, nreq, deleted, dumpFetched,
                   sinkBefore, sink0, sameCursorSent, keepHistory>>

\* one POST fails: raise_for_status raises
UpsertChunkFail ==
    /\ pc = "upsert"
    /\ i < Len(rows)
    /\ upserted' = TRUE
    /\ Raise("upsert")
    /\ UNCHANGED <<phase, reloadDay, sink, cursor, prev_cursor, pages, params, attempt,
                   wb_data, rows, i, lastResp, slept, lastReq, nreq, deleted,
                   dumpFetched, sinkBefore, sink0, sameCursorSent, keepHistory>>

\* upsert_orders_to_db returns (no rows, or every chunk posted): the reload is done
\* and incremental_sync begins, or the loop goes on to its cursor
\* UpsertReturn of an orchestrator that stops after the reload instead of going on
\* to the incremental loop
UpsertReturnReloadEndsRun ==
    /\ pc = "upsert"
    /\ i >= Len(rows)
    /\ IF phase = "reload"
       THEN /\ pc' = "done"
            /\ phase' = phase
            /\ wb_data' = <<>>
            /\ sink0' = IF keepHistory /\ lastResp # "200"
                       THEN DeletedRows(sink0, reloadDay)
                       ELSE <<>>
       ELSE /\ pc' = "advance"
            /\ phase' = phase
            /\ wb_data' = wb_data
            /\ sink0' = sink0
    /\ rows' = <<>>
    /\ i' = 0
    /\ sinkBefore' = <<>>
    /\ UNCHANGED <<reloadDay, sink, cursor, prev_cursor, pages, params, attempt, err,
                   lastResp, slept, lastReq, nreq, deleted, dumpFetched, upserted,
                   sameCursorSent, keepHistory>>

UpsertReturn ==
    /\ pc = "upsert"
    /\ i >= Len(rows)
    /\ IF phase = "reload"
       THEN /\ pc' = "inc_read"
            /\ phase' = "inc"
            /\ wb_data' = <<>>
            /\ sink0' = IF keepHistory /\ lastResp # "200"
                       THEN DeletedRows(sink0, reloadDay)
                       ELSE <<>>
       ELSE /\ pc' = "advance"
            /\ phase' = phase
            /\ wb_data' = wb_data
            /\ sink0' = sink0
    /\ rows' = <<>>
    /\ i' = 0
    /\ sinkBefore' = <<>>
    /\ UNCHANGED <<reloadDay, sink, cursor, prev_cursor, pages, params, attempt, err,
                   lastResp, slept, lastReq, nreq, deleted, dumpFetched, upserted,
                   sameCursorSent, keepHistory>>

(***************************************************************************)
(* incremental_sync.                                                       *)
(***************************************************************************)
\* a start that adds the overlap to the high-water mark
StartUtcOverlapForward(tbl) ==
    get_db_max_last_change_date_utc(tbl) + Seconds(OVERLAP_MINUTES * MINUTE_SECONDS)

\* start_utc = db_max_lcd - timedelta(minutes=OVERLAP_MINUTES)
StartUtc(tbl) ==
    get_db_max_last_change_date_utc(tbl) - Seconds(OVERLAP_MINUTES * MINUTE_SECONDS)

\* the high-water mark is read, the cursor set, and the loop's first fetch is called
ReadHighWaterOk ==
    /\ pc = "inc_read"
    /\ cursor' = format_dt_for_wb(StartUtc(sink))
    /\ prev_cursor' = NoneStr
    /\ pages' = 1
    /\ CallWbRequest(cursor', 0)
    /\ UNCHANGED <<phase, reloadDay, sink, wb_data, rows, i, err, lastResp, slept,
                   lastReq, deleted, dumpFetched, upserted, sinkBefore, sink0,
                   sameCursorSent, keepHistory>>

\* get_db_max_last_change_date_utc: raise_for_status raises
ReadHighWaterFail ==
    /\ pc = "inc_read"
    /\ Raise("read")
    /\ UNCHANGED <<phase, reloadDay, sink, cursor, prev_cursor, pages, params, attempt,
                   wb_data, rows, i, lastResp, slept, lastReq, nreq, deleted,
                   dumpFetched, upserted, sinkBefore, sink0, sameCursorSent, keepHistory>>

\* the last record's raw lastChangeDate
LastRowLcd(data) == data[Len(data)].lastChangeDate

\* the stall guard without its page-size test
StuckAnySize(prev, last_row_lcd, data) == prev = last_row_lcd

\* the stall guard's condition
Stuck(prev, last_row_lcd, data) == prev = last_row_lcd /\ Len(data) >= STALL_PAGE_LEN

\* NextCursor with the bumped instant printed in UTC instead of upstream-local time
NextCursorUtc(prev, last_row_lcd, data) ==
    IF Stuck(prev, last_row_lcd, data)
    THEN Ts((parse_wb_dt_to_utc(last_row_lcd) + Seconds(1)) \div SubSec, 0)
    ELSE last_row_lcd

\* NextCursor re-deriving the cursor from the normalized instant
NextCursorNormalized(prev, last_row_lcd, data) ==
    IF Stuck(prev, last_row_lcd, data)
    THEN format_dt_for_wb(parse_wb_dt_to_utc(last_row_lcd) + Seconds(1))
    ELSE format_dt_for_wb(parse_wb_dt_to_utc(last_row_lcd))

\* NextCursor without the stall guard
NextCursorRaw(prev, last_row_lcd, data) == last_row_lcd

\* the cursor for the next page
NextCursor(prev, last_row_lcd, data) ==
    IF Stuck(prev, last_row_lcd, data)
    THEN format_dt_for_wb(parse_wb_dt_to_utc(last_row_lcd) + Seconds(1))
    ELSE last_row_lcd

\* after the upsert: break when the last row has no lastChangeDate, else move the cursor
Advance ==
    /\ pc = "advance"
    /\ IF ~Truthy(LastRowLcd(wb_data))
       THEN /\ pc' = "done"
            /\ UNCHANGED <<cursor, prev_cursor, wb_data>>
       ELSE /\ cursor' = NextCursor(prev_cursor, LastRowLcd(wb_data), wb_data)
            /\ prev_cursor' = LastRowLcd(wb_data)
            /\ pc' = "sleep"
            /\ wb_data' = <<>>
    /\ UNCHANGED <<phase, reloadDay, sink, pages, params, attempt, rows, i, err, lastResp,
                   slept, lastReq, nreq, deleted, dumpFetched, upserted,
                   sinkBefore, sink0, sameCursorSent, keepHistory>>

\* time.sleep(WB_SLEEP_SECONDS), then the next iteration calls wb_request(cursor, 0)
Sleep ==
    /\ pc = "sleep"
    /\ pages < MaxPages
    /\ slept' = slept + WB_SLEEP_SECONDS
    /\ pages' = pages + 1
    /\ sameCursorSent' = (keepHistory /\ cursor = params.dateFrom)
    /\ CallWbRequest(cursor, 0)
    /\ UNCHANGED <<phase, reloadDay, sink, cursor, prev_cursor, wb_data, rows, i, err,
                   lastResp, lastReq, deleted, dumpFetched, upserted, sinkBefore,
                   sink0, keepHistory>>

Next ==
    \/ Main
    \/ DeleteOk
    \/ DeleteFail
    \/ Resp200
    \/ Resp200NonList
    \/ Resp429
    \/ Resp5xx
    \/ RespOther
    \/ NetworkError
    \/ Transform
    \/ UpsertChunkOk
    \/ UpsertChunkFail
    \/ UpsertReturn
    \/ ReadHighWaterOk
    \/ ReadHighWaterFail
    \/ Advance
    \/ Sleep

Spec == Init /\ [][Next]_vars

(***************************************************************************)
(* The two conversions on their own: a string of the upstream is parsed by *)
(* parse_wb_dt_to_utc and the instant printed by format_dt_for_wb.         *)
(***************************************************************************)
\* wall-clock seconds around the two changes of Moscow's offset and in 2023
RtSeconds ==
    {MSK_GAP_START - HOUR_SECONDS + 900 * n : n \in 0..MaxRtSteps} \cup
    {MSK_FOLD_END - 2 * HOUR_SECONDS + 900 * n : n \in 0..MaxRtSteps} \cup
    {DAY_SECONDS - HOUR_SECONDS + 900 * n : n \in 0..MaxRtSteps}

\* the strings given to the round trip: "YYYY-MM-DDTHH:MM:SS[.f]"
RtInputs == {Ts(w, f) : w \in RtSeconds, f \in 0..(SubSec - 1)}

RtInit ==
    /\ pc = "rt_in"
    /\ phase = "idle"
    /\ reloadDay = 0
    /\ sink = <<>>
    /\ cursor = NoneStr
    /\ prev_cursor \in RtInputs
    /\ pages = 0
    /\ params = [dateFrom |-> NoneStr, flag |-> 0]
    /\ attempt = 0
    /\ wb_data = <<>>
    /\ rows = <<>>
    /\ i = 0
    /\ err = "none"
    /\ lastResp = "none"
    /\ slept = 0
    /\ lastReq = [dateFrom |-> NoneStr, flag |-> 0]
    /\ nreq = 0
    /\ deleted = FALSE
    /\ dumpFetched = FALSE
    /\ upserted = FALSE
    /\ sinkBefore = <<>>
    /\ sink0 = <<>>
    /\ sameCursorSent = FALSE
    /\ keepHistory = FALSE

\* cursor = format_dt_for_wb(parse_wb_dt_to_utc(prev_cursor))
RoundTrip ==
    /\ pc = "rt_in"
    /\ pc' = "rt_out"
    /\ cursor' = format_dt_for_wb(parse_wb_dt_to_utc(prev_cursor))
    /\ UNCHANGED <<phase, reloadDay, sink, prev_cursor, pages, params, attempt, wb_data,
                   rows, i, err, lastResp, slept, lastReq, nreq, deleted, dumpFetched,
                   upserted, sinkBefore, sink0, sameCursorSent, keepHistory>>

SpecRoundTrip == RtInit /\ [][RoundTrip]_vars

\* the program with its history recorded
SpecHistory == InitHistory /\ [][Next]_vars

\* the interpreter always takes the program's next step: a run stops only where no
\* step is left
FairSpec == Spec /\ WF_vars(Next)

(***************************************************************************)
(* Properties.                                                             *)
(***************************************************************************)
\* the srids of the rows of a table are pairwise different
UniqueSrids(tbl) == \A m, n \in 1..Len(tbl) : tbl[m].srid = tbl[n].srid => m = n

\* upsert_orders_to_db has posted every chunk of rows
UpsertComplete == pc = "upsert" /\ i >= Len(rows) /\ rows # <<>>

\* C1: upsert idempotence.  When upsert_orders_to_db has posted every chunk of a page,
\* the table is what one run of it over the table it began with gives, and running it
\* over the same rows once more leaves the table as it is: the same rows, in number
\* and in every field.  The same holds of the two runs from the state the call begins in.
C1_UpsertIdempotent ==
    /\ UpsertComplete =>
          /\ sink = upsert_orders_to_db(sinkBefore, rows, 0)
          /\ upsert_orders_to_db(sink, rows, 0) = sink
    /\ (pc = "upsert" /\ i = 0) =>
          upsert_orders_to_db(upsert_orders_to_db(sink, rows, 0), rows, 0)
             = upsert_orders_to_db(sink, rows, 0)

\* C1 witness: a page of two chunks was upserted, it changed the table, and one of
\* its srids was stored before with other field values
C1_Witness ==
    /\ UpsertComplete
    /\ Len(rows) > BATCH_SIZE
    /\ sink # sinkBefore
    /\ \E m \in 1..Len(sinkBefore), n \in 1..Len(rows) :
          sinkBefore[m].srid = rows[n].srid /\ sinkBefore[m] # rows[n]

\* C2: in every reachable state the table holds at most one row per srid, and every
\* srid upserted so far is held by exactly one row
C2_OneRowPerSrid ==
    /\ UniqueSrids(sink)
    /\ pc = "upsert" =>
          \A n \in 1..Len(rows) :
              n <= i => Cardinality(Holding(sink, rows[n].srid)) = 1

\* C2 witness: after a reload, the second incremental page has overwritten the row
\* of an srid that was stored with other field values
C2_Witness ==
    /\ UpsertComplete
    /\ phase = "inc"
    /\ pages = 2
    /\ deleted
    /\ Len(sink) = Len(sinkBefore)
    /\ \E m \in 1..Len(sinkBefore), n \in 1..Len(rows) :
          sinkBefore[m].srid = rows[n].srid /\ sinkBefore[m] # rows[n]

\* the incremental loop has been entered
InLoop == phase = "inc" /\ pages >= 1

C4_DeleteFirst ==
    reloadDay # 0 =>
        /\ (dumpFetched \/ upserted \/ lastResp # "none") => deleted
        /\ err = "delete" =>
              /\ pc = "crashed"
              /\ ~dumpFetched /\ ~upserted /\ lastResp = "none"
              /\ sink = sink0

\* C4 witness: the reload has deleted, fetched the dump and upserted it
C4_Witness ==
    /\ phase = "reload"
    /\ deleted /\ dumpFetched /\ upserted
    /\ UpsertComplete

\* the rows of the table the reload began with whose date lies outside the day
OutsideRows(tbl, d) ==
    {tbl[n] : n \in {m \in 1..Len(tbl) :
                        tbl[m].date < DayStartUtc(d) \/ tbl[m].date >= DayEndUtc(d)}}

\* the rows a table holds
RowsOf(tbl) == {tbl[n] : n \in 1..Len(tbl)}

\* the srids the upsert call in progress has posted so far
PostedSrids == {rows[n].srid : n \in {m \in 1..Len(rows) : m <= i}}

\* C5 as claimed: from the delete to the end of the reload, every row dated outside
\* the day is still in the table with the fields it had
C5_Original_OutsideRowsUntouched ==
    (phase = "reload" /\ deleted) => OutsideRows(sink0, reloadDay) \subseteq RowsOf(sink)

\* C5 amended: the delete removes exactly the rows with start <= date < end, and from
\* the delete to the end of the reload every row dated outside the day is still in
\* the table with the fields it had, unless the dump holds a record with its srid
\* (the upsert then overwrites it)
C5_OutsideRowsKeptUnlessUpserted ==
    (phase = "reload" /\ deleted) =>
        /\ ~upserted => RowsOf(sink) = OutsideRows(sink0, reloadDay)
        /\ \A r \in OutsideRows(sink0, reloadDay) :
              r.srid \notin PostedSrids => r \in RowsOf(sink)

\* C5 witness: the reload is complete; the delete removed a row of the day and kept
\* one dated outside it, and the dump has added a row
C5_Witness ==
    /\ phase = "reload"
    /\ deleted
    /\ UpsertComplete
    /\ OutsideRows(sink0, reloadDay) # {}
    /\ OutsideRows(sink0, reloadDay) # RowsOf(sink0)
    /\ OutsideRows(sink0, reloadDay) \subseteq RowsOf(sink)
    /\ RowsOf(sink) # OutsideRows(sink0, reloadDay)

\* a step of the cursor update that goes on to the sleep
CursorStep == pc = "advance" /\ pc' = "sleep"

\* the guard's case, stated on the page and prev_cursor of the state before the step
GuardCase == Len(wb_data) >= STALL_PAGE_LEN /\ LastRowLcd(wb_data) = prev_cursor

\* C6 as claimed: when the page reaches the threshold and its last lastChangeDate
\* equals prev_cursor, the next cursor is the instant of that timestamp plus exactly
\* one second; otherwise it is the raw lastChangeDate
C6_Original_BumpExactlyOneSecond ==
    [][CursorStep =>
          IF GuardCase
          THEN parse_wb_dt_to_utc(cursor') = parse_wb_dt_to_utc(LastRowLcd(wb_data)) + SubSec
          ELSE cursor' = LastRowLcd(wb_data)]_vars

\* C6 amended: in the guard's case the next cursor is the whole second after the one
\* the timestamp lies in (its sub-second part is dropped by the second-precision
\* format): later than the timestamp by at most one second, and by exactly one second
\* when the timestamp has no sub-second part; otherwise it is the raw lastChangeDate
C6_BumpToNextWholeSecond ==
    [][CursorStep =>
          IF GuardCase
          THEN /\ cursor' = [k |-> "ts", s |-> LastRowLcd(wb_data).s + 1, f |-> 0]
               /\ parse_wb_dt_to_utc(cursor') > parse_wb_dt_to_utc(LastRowLcd(wb_data))
               /\ parse_wb_dt_to_utc(cursor') <= parse_wb_dt_to_utc(LastRowLcd(wb_data)) + SubSec
               /\ LastRowLcd(wb_data).f = 0 =>
                     parse_wb_dt_to_utc(cursor') = parse_wb_dt_to_utc(LastRowLcd(wb_data)) + SubSec
          ELSE cursor' = LastRowLcd(wb_data)]_vars

\* C6 witness: the guard has fired on the second page: the cursor is one second past
\* the whole-second lastChangeDate that ended both pages
C6_Witness ==
    /\ pc = "sleep"
    /\ pages = 2
    /\ prev_cursor.k = "ts"
    /\ prev_cursor.f = 0
    /\ cursor = [k |-> "ts", s |-> prev_cursor.s + 1, f |-> 0]

\* C7 as claimed: whenever a request is about to be sent and the upstream's latest
\* answer was a 200, at least WB_SLEEP_SECONDS have been slept since that answer
C7_Original_SleepAfterEverySuccess ==
    (pc = "request" /\ lastResp = "200") => slept >= WB_SLEEP_SECONDS

\* a step in which wb_request gets the answer resp
Answered(resp) == pc = "request" /\ lastResp' = resp

\* C8 as claimed: every 429 is followed by a sleep of at least the interval and a
\* retry of the same request; the call does not return on it
C8_Original_429AlwaysRetried ==
    [][Answered("429") =>
          /\ slept' >= WB_SLEEP_SECONDS
          /\ pc' = "request"
          /\ params' = params
          /\ cursor' = cursor]_vars

\* C8 amended: every request of a call carries the call's cursor and mode; a 429 is
\* followed by a sleep of at least the interval and leaves the cursor as it is; on
\* any but the max_retries-th attempt of the call the same request is then sent again,
\* and on the max_retries-th attempt the call returns an empty page
C8_429RetriedUntilExhausted ==
    /\ [][pc = "request" => lastReq' = params]_vars
    /\ [][Answered("429") =>
             /\ slept' >= WB_SLEEP_SECONDS
             /\ cursor' = cursor /\ prev_cursor' = prev_cursor
             /\ IF nreq + 1 < max_retries
                THEN pc' = "request" /\ params' = params /\ nreq' = nreq + 1
                ELSE pc' # "request" /\ wb_data' = <<>>]_vars

\* C8 witness: an incremental fetch is being retried after a 429
C8_Witness ==
    /\ pc = "request"
    /\ lastResp = "429"
    /\ nreq >= 1
    /\ params = [dateFrom |-> cursor, flag |-> 0]
    /\ lastReq = params

\* C9: a wb_request call sends at most max_retries requests (when one is about to be
\* sent, fewer than max_retries have failed before it); the k-th attempt failing with
\* a 5xx status or a network error is followed by a sleep of 10 * k seconds; the
\* max_retries-th failed attempt makes the call return an empty page; and no answer
\* makes the call raise
C9_BoundedRetry ==
    /\ [](pc = "request" => (nreq < max_retries /\ attempt = nreq + 1))
    /\ [][(Answered("5xx") \/ Answered("neterr")) => slept' = 10 * (nreq + 1)]_vars
    /\ [][(pc = "request" /\ nreq + 1 = max_retries /\ lastResp' # "200") =>
             (pc' # "request" /\ wb_data' = <<>>)]_vars
    /\ [][pc = "request" => (pc' # "crashed" /\ err' = "none")]_vars

\* C9 witness: the call has returned an empty page after max_retries failed attempts,
\* the last of them a 5xx or network failure followed by its 10 * max_retries seconds
C9_Witness ==
    /\ pc = "done"
    /\ lastResp \in {"5xx", "neterr"}
    /\ slept = 10 * max_retries
    /\ wb_data = <<>>
    /\ err = "none"

\* C10: a failed sink call ends the run at once: the process is dead in every state
\* in which a sink error is recorded, and nothing changes after that; when a chunk's
\* POST has failed, the table holds the rows of the chunks before it applied to the
\* table the call began with, and none of the later rows
C10_SinkErrorsFatal ==
    /\ [](err \in {"read", "delete", "upsert"} => pc = "crashed")
    /\ [](err = "upsert" => sink = UpsertRows(sinkBefore, SubSeq(rows, 1, i)))
    /\ [][(err \in {"read", "delete", "upsert"} \/ err' \in {"read", "delete", "upsert"})
             => /\ pc' = "crashed"
                /\ sink' = sink /\ cursor' = cursor /\ lastReq' = lastReq
                /\ lastResp' = lastResp /\ i' = i]_vars
    /\ [][pc = "crashed" => (vars' = vars)]_vars

\* C10 witness: the second chunk's POST failed; the first chunk is in the table
C10_Witness ==
    /\ pc = "crashed"
    /\ err = "upsert"
    /\ i = BATCH_SIZE
    /\ sink # sinkBefore
    /\ sink = UpsertRows(sinkBefore, SubSeq(rows, 1, BATCH_SIZE))

\* the page in hand holds a parse error: a record transform_wb_orders cannot
\* normalize, or a last record without lastChangeDate
ParseErrorPage ==
    /\ wb_data # <<>>
    /\ \/ \E n \in 1..Len(wb_data) : Raises(wb_data[n])
       \/ ~Truthy(LastRowLcd(wb_data))

\* C11 as claimed: once the incremental loop holds a page with a parse error, it goes
\* to its normal end without another fetch: the run is either still about to
\* transform that page or done, and no exception has ended it
C11_Original_ParseErrorEndsLoopNormally ==
    (InLoop /\ ParseErrorPage) => (pc \in {"transform", "done"} /\ err = "none")

\* one step of the orchestrator's state machine: the only changes of phase are
\* IDLE -> RELOAD (a day is configured), IDLE -> INCREMENTAL (none is) and
\* RELOAD -> INCREMENTAL; DONE is entered from INCREMENTAL and never left
OrchestratorStep ==
    /\ (phase' # phase) =>
          \/ phase = "idle" /\ phase' = "reload" /\ reloadDay # 0
          \/ phase = "idle" /\ phase' = "inc" /\ reloadDay = 0
          \/ phase = "reload" /\ phase' = "inc"
    /\ (pc' = "done") => (phase = "inc" /\ phase' = "inc")
    /\ (pc = "done") => (vars' = vars)

\* C12: the orchestrator follows IDLE -> [RELOAD] -> INCREMENTAL -> DONE: RELOAD is
\* entered only with a target day configured, once, before INCREMENTAL; every run
\* that is not ended by a fatal error enters INCREMENTAL; DONE is reached only from
\* INCREMENTAL and no state is re-entered
C12_OrchestratorOrder ==
    /\ [][OrchestratorStep]_vars
    /\ <>(phase = "inc" \/ pc = "crashed")

\* a run with a configured day that deleted, fetched the dump, went through the
\* incremental loop and is done
C12_Witness ==
    pc = "done" /\ phase = "inc" /\ reloadDay # 0 /\ deleted /\ dumpFetched

\* C13 as claimed: the cursor set after a processed page is never earlier than the
\* cursor that page was fetched with
C13_Original_CursorNeverGoesBack ==
    [][CursorStep => parse_wb_dt_to_utc(cursor') >= parse_wb_dt_to_utc(cursor)]_vars

\* C13 amended: the page is fetched with the cursor; the cursor changes only in the
\* step after a page's upsert (and when the loop's first cursor is computed); and the
\* cursor set after a page is not earlier than the cursor the page was fetched with
\* whenever the page's last lastChangeDate is not earlier than that cursor
C13_CursorFollowsLastRecord ==
    /\ []((InLoop /\ pc \in {"request", "transform", "upsert", "advance"})
             => params.dateFrom = cursor)
    /\ [][(cursor' # cursor) => (pc = "inc_read" \/ CursorStep)]_vars
    /\ [][(CursorStep /\ parse_wb_dt_to_utc(LastRowLcd(wb_data)) >= parse_wb_dt_to_utc(cursor))
             => parse_wb_dt_to_utc(cursor') >= parse_wb_dt_to_utc(cursor)]_vars

\* C13 witness: the second page ended not earlier than the cursor it was fetched
\* with, and the cursor set after it is later than that cursor
C13_Witness ==
    /\ pc = "sleep"
    /\ pages = 2
    /\ parse_wb_dt_to_utc(cursor) > parse_wb_dt_to_utc(params.dateFrom)
    /\ parse_wb_dt_to_utc(prev_cursor) >= parse_wb_dt_to_utc(params.dateFrom)

\* the sink's high-water mark: its greatest last_change_date, or 2023-01-01T00:00:00
\* Moscow time when it holds no row
HighWater(tbl) ==
    IF tbl = <<>> THEN (0 - MSK_OFFSET) * SubSec
    ELSE CHOOSE t \in {tbl[n].last_change_date : n \in 1..Len(tbl)} :
             \A m \in 1..Len(tbl) : tbl[m].last_change_date <= t

\* the overlap M as a duration
Overlap == OVERLAP_MINUTES * MINUTE_SECONDS * SubSec

\* the step that computes the loop's first cursor and calls wb_request with it
FirstCursorStep == pc = "inc_read" /\ pc' = "request"

\* C14: with T the sink's high-water mark and M the overlap, the first incremental
\* fetch starts at T - M: the first cursor is the upstream-local (Moscow) wall-clock
\* second that instant lies in, printed with second precision, and it is the
\* dateFrom of the first flag=0 request
C14_OverlapCorrection ==
    [][FirstCursorStep =>
          /\ cursor' = [k |-> "ts",
                        s |-> ((HighWater(sink) - Overlap) \div SubSec) + MSK_OFFSET,
                        f |-> 0]
          /\ parse_wb_dt_to_utc(cursor') <= HighWater(sink) - Overlap
          /\ HighWater(sink) - Overlap < parse_wb_dt_to_utc(cursor') + SubSec
          /\ params' = [dateFrom |-> cursor', flag |-> 0]
          /\ pages' = 1]_vars

\* C14 witness: the first request of a loop over a sink with more than one row, the
\* cursor at the high-water mark less the overlap
C14_Witness ==
    /\ pc = "request"
    /\ phase = "inc"
    /\ pages = 1
    /\ Len(sink) >= 2
    /\ \E n \in 1..Len(sink) : sink[n].last_change_date < HighWater(sink)
    /\ parse_wb_dt_to_utc(cursor) + Overlap <= HighWater(sink)
    /\ params.dateFrom = cursor

\* the wall-clock second w was skipped by Moscow's clocks
Skipped(w) == MSK_GAP_START <= w /\ w < MSK_GAP_START + HOUR_SECONDS

\* C15 as claimed: parsing any upstream-local string and printing the instant gives
\* the string truncated to whole seconds
C15_Original_RoundTripTruncates ==
    pc = "rt_out" => cursor = [prev_cursor EXCEPT !.f = 0]

\* C15 amended: the round trip gives the string truncated to whole seconds when the
\* string names a wall-clock time that exists in Moscow (once or twice), and the time
\* one hour later when it names a skipped one
C15_RoundTripOfExistingTimes ==
    pc = "rt_out" =>
        /\ cursor.k = "ts" /\ cursor.f = 0
        /\ cursor.s = IF Skipped(prev_cursor.s)
                      THEN prev_cursor.s + HOUR_SECONDS
                      ELSE prev_cursor.s

\* C15 witness: a string with a sub-second part, naming a time of the repeated hour
\* of 2014-10-26, has come back truncated
C15_Witness ==
    /\ pc = "rt_out"
    /\ prev_cursor.f # 0
    /\ MSK_FOLD_END - HOUR_SECONDS <= prev_cursor.s /\ prev_cursor.s < MSK_FOLD_END
    /\ cursor = [prev_cursor EXCEPT !.f = 0]

\* C16: on an answer whose status is neither 200, 429 nor 5xx, on whichever attempt
\* of the call it arrives, wb_request returns an empty page at once: no sleep follows
\* the answer, no further request of that call is sent, nothing is raised, and the
\* caller goes on with the empty page (the loop ends, the reload transforms no row)
C16_OtherStatusReturnsEmpty ==
    [][Answered("other") =>
          /\ slept' = 0
          /\ pc' # "request"
          /\ pc' = IF phase = "inc" THEN "done" ELSE "transform"
          /\ wb_data' = <<>>
          /\ err' = "none"
          /\ lastReq' = params
          /\ cursor' = cursor /\ sink' = sink]_vars

\* C16 witness: the loop's second fetch was answered with such a status and the loop
\* has ended on the empty page, without a sleep after the answer
C16_Witness ==
    /\ pc = "done"
    /\ pages = 2
    /\ lastResp = "other"
    /\ slept = 0
    /\ wb_data = <<>>

\* the order of the steps of one iteration of the incremental loop
IterationStep ==
    /\ pc = "request" => pc' \in {"request", "transform", "done"}
    /\ pc = "transform" => pc' \in {"upsert", "crashed"}
    /\ pc = "upsert" => pc' \in {"upsert", "advance", "crashed"}
    /\ pc = "advance" => pc' \in {"sleep", "done"}
    /\ pc = "sleep" => pc' = "request"

\* C17: in an iteration with a non-empty page the steps are fetch, transform, upsert,
\* cursor advance, sleep: the cursor step is reached only from an upsert call that
\* has posted every chunk of the page's rows, the cursor changes in no other step of
\* the loop, the new cursor is the raw lastChangeDate of the page's last record when
\* the stall guard does not fire, and the sleep comes before the next request, which
\* carries the new cursor
C17_IterationOrder ==
    /\ [][InLoop => IterationStep]_vars
    /\ [][(InLoop /\ pc # "advance" /\ pc' = "advance") =>
             /\ pc = "upsert"
             /\ wb_data # <<>>
             /\ rows = transform_wb_orders(wb_data)
             /\ i >= Len(rows)
             /\ sink = UpsertRows(sinkBefore, rows)]_vars
    /\ [][(InLoop /\ cursor' # cursor) => CursorStep]_vars
    /\ [][(CursorStep /\ ~GuardCase) => cursor' = LastRowLcd(wb_data)]_vars
    /\ [][(pc = "sleep" /\ pc' # "sleep") =>
             /\ slept' = slept + WB_SLEEP_SECONDS
             /\ params' = [dateFrom |-> cursor, flag |-> 0]
             /\ cursor' = cursor]_vars

\* C17 witness: a page was upserted into a sink of at least two rows and the cursor
\* is the raw lastChangeDate of its last record, sub-second part included
C17_Witness ==
    /\ pc = "sleep"
    /\ upserted
    /\ Len(sink) >= 2
    /\ cursor.f # 0
    /\ cursor = prev_cursor

\* the page in hand is maximal and ends at the cursor it was fetched with
MaximalPageAtCursor ==
    Len(wb_data) >= STALL_PAGE_LEN /\ LastRowLcd(wb_data) = cursor

\* C18: the stall guard bounds the pages fetched with one cursor when the upstream
\* answers that cursor with maximal pages ending at it: the first such page leaves
\* the cursor and records it in prev_cursor, which nothing changes before the next
\* cursor step; a second such page in a row moves the cursor to a strictly later
\* instant, so the same cursor is sent at most twice
C18_StallGuardBoundsRepeats ==
    /\ [][(CursorStep /\ MaximalPageAtCursor) =>
             IF prev_cursor = cursor
             THEN parse_wb_dt_to_utc(cursor') > parse_wb_dt_to_utc(cursor)
             ELSE cursor' = cursor /\ prev_cursor' = cursor]_vars
    /\ [][(InLoop /\ prev_cursor' # prev_cursor) => CursorStep]_vars

\* C18 witness: two fetches in a row carried the same cursor, the second page ended
\* at it again, and the cursor to be sent next is strictly later
C18_Witness ==
    /\ pc = "sleep"
    /\ pages = 2
    /\ sameCursorSent
    /\ prev_cursor = params.dateFrom
    /\ parse_wb_dt_to_utc(cursor) > parse_wb_dt_to_utc(params.dateFrom)

\* C19 as claimed: the loop never sends one cursor on more than two fetches in a row:
\* when the latest two fetches carried the same cursor, the cursor the loop is about
\* to send after the sleep differs from it
C19_Original_NoThirdFetchWithSameCursor ==
    (InLoop /\ pc = "sleep" /\ sameCursorSent) => cursor # params.dateFrom

\* C20 as claimed: when the range delete has succeeded and the flag=1 fetch ended
\* without a 200 answer (retries exhausted, or a non-retryable status), every order
\* the delete removed from the table is in the table again, by its srid, once the
\* run is done
C20_Original_ReloadKeepsDayOnFailedFetch ==
    (pc = "done" /\ keepHistory /\ reloadDay # 0 /\ deleted) =>
        \A n \in 1..Len(sink0) : \E m \in 1..Len(sink) : sink[m].srid = sink0[n].srid

====
